---- MODULE Spec2Model ----
(***************************************************************************)
(* Model of the geolocation pipeline of htmlfarmer/pulse (wikipedia.py):   *)
(*   - the per-item coordinate reconciliation and feature assembly,        *)
(*   - RemoteLLMClient.ask (retry, provider failover, streaming fallback), *)
(*   - the incremental and the final write of the destination file.        *)
(* Coordinates are whole degrees; a model reply or a knowledge-base value  *)
(* is a tagged value so that null, NaN and non-numeric values are distinct *)
(* from numbers.  Texts are sequences of word tokens.                      *)
(***************************************************************************)
EXTENDS Integers, Sequences, FiniteSets, TLC

\* ------------------------------------------------------------------------
\* Tagged values: what a JSON field (or a Python local) can hold
\* ------------------------------------------------------------------------
Num(n) == [t |-> "num", v |-> n]
NumStr(n) == [t |-> "numstr", v |-> n]
NaNV == [t |-> "nan", v |-> 0]
StrV == [t |-> "str", v |-> 0]
NoneV == [t |-> "none", v |-> 0]

IsNone(x) == x.t = "none"
IsFinite(x) == x.t = "num"

\* float(x): numbers and numeric strings convert, "nan" converts to NaN,
\* any other string raises ValueError
CanFloat(x) == x.t \in {"num", "numstr", "nan"}
ToFloat(x) == IF x.t = "numstr" THEN Num(x.v) ELSE x

Abs(n) == IF n < 0 THEN -n ELSE n

Pair(a, b) == [lat |-> a, lng |-> b]
NoPair == Pair(NoneV, NoneV)

\* ------------------------------------------------------------------------
\* Per-item resolution
\* ------------------------------------------------------------------------
\* lines 615-619: lat = float(lat) if lat is not None else None (same for
\* lng); a TypeError/ValueError on either sets both to None
FloatConv(p) ==
    IF (~IsNone(p.lat) /\ ~CanFloat(p.lat)) \/ (~IsNone(p.lng) /\ ~CanFloat(p.lng))
    THEN NoPair
    ELSE Pair(IF IsNone(p.lat) THEN NoneV ELSE ToFloat(p.lat),
              IF IsNone(p.lng) THEN NoneV ELSE ToFloat(p.lng))

TOL == 2

is_close_strict(a, b, tol) ==
    IF CanFloat(a) /\ CanFloat(b) /\ ToFloat(a).t = "num" /\ ToFloat(b).t = "num"
    THEN Abs(ToFloat(a).v - ToFloat(b).v) < tol
    ELSE FALSE

\* is_close: abs(float(a) - float(b)) <= tol, False on any exception; a NaN
\* operand makes the comparison false
is_close(a, b, tol) ==
    IF CanFloat(a) /\ CanFloat(b) /\ ToFloat(a).t = "num" /\ ToFloat(b).t = "num"
    THEN Abs(ToFloat(a).v - ToFloat(b).v) <= tol
    ELSE FALSE

BothSet(p) == ~IsNone(p.lat) /\ ~IsNone(p.lng)

GeoAskedAlways(in) == in.ai /\ in.place # ""

\* lines 621, 627-630: the place-string geocode prompt is sent in the else
\* branch of `if coords:` and only with a model and a non-empty place_str
GeoAsked(in) == in.ai /\ in.place # "" /\ in.wiki = NoPair

\* the prompts sent for one item, in order: the story prompt (line 495), the
\* event-text geocode prompt (line 548), the place-string prompt (line 639)
Prompts(in) ==
    IF ~in.ai THEN <<>>
    ELSE <<"story", "only">> \o (IF GeoAsked(in) THEN <<"geo">> ELSE <<>>)

\* lines 621-626 and 663-757: lat_wiki/lng_wiki are the knowledge-base
\* coordinate when the lookup of place_str hit, else the place-string model
\* estimate when one was parsed (only asked with a model and a place string)
WikiCoord(in) ==
    IF in.place # "" /\ in.wiki # NoPair THEN in.wiki
    ELSE IF GeoAsked(in) THEN in.geo
    ELSE NoPair

\* lines 767-778
use_llm(story, wk) ==
    IF BothSet(story)
    THEN IF BothSet(wk)
         THEN is_close(story.lat, wk.lat, TOL) /\ is_close(story.lng, wk.lng, TOL)
         ELSE TRUE
    ELSE FALSE

\* lines 768-778: the working lat/lng after the comparison; the story
\* coordinate is kept whenever it is set, the lat_wiki pair is taken only
\* when the story has none
Working(story, wk) ==
    IF BothSet(story) THEN story
    ELSE IF BothSet(wk) THEN wk
    ELSE story

OverrideNever(w, only) == w

\* lines 781-788: a parsed event-text estimate overrides the working pair
Override(w, only) == IF only # NoPair THEN only ELSE w

DecisionOutOfSet(ul, wk, llm_raw) ==
    IF ul THEN "model"
    ELSE IF BothSet(wk) THEN "wikidata"
    ELSE IF llm_raw THEN "model" ELSE "fallback"

\* lines 792-798
Decision(ul, wk, llm_raw) ==
    IF ul THEN "llm"
    ELSE IF BothSet(wk) THEN "wikidata"
    ELSE IF llm_raw THEN "llm" ELSE "fallback"

FidNoIdx(title, place, idx) == <<title, place, 0>>

\* lines 790-791: the id is the md5 of title|place|idx, kept as the triple
Fid(title, place, idx) == <<title, place, idx>>

\* line 513: title = story.get('title') or '' keeps a truthy value of any
\* JSON type; NumTitle stands for a title that is a non-zero number
NumTitle == "<number>"
\* line 790: (title or '') + '|' raises TypeError unless title is a string
FidRaises(title) == title = NumTitle

NoFeature ==
    [id |-> Fid("", "", -1), lat |-> NoneV, lng |-> NoneV,
     geometry |-> <<NoneV, NoneV>>, decision |-> "none", only |-> NoPair]

\* One iteration of the item loop, lines 465-830, up to features.append.
\* in.ai: a model is loaded; in.story: the lat/lng of the parsed story reply
\* (with a model) or of the link lookup (without); in.only: the parsed
\* event-text estimate; in.wiki: the lookup of place_str; in.geo: the parsed
\* place-string estimate.
\* Without a model llm_only_geocode_parsed is never bound (it is assigned
\* only inside `if ai_model:`), so line 781 raises UnboundLocalError; a
\* non-string title raises TypeError at line 790.
ResolveItem(in) ==
    LET story == FloatConv(in.story)
        only  == IF in.ai THEN in.only ELSE NoPair
        wk    == WikiCoord(in)
        ul    == use_llm(story, wk)
        w     == Working(story, wk)
        fin   == Override(w, only)
    IN  IF ~BothSet(w)
        THEN [status |-> "none", feature |-> NoFeature, prompts |-> Prompts(in),
              story |-> story, wk |-> wk, use_llm |-> ul]
        ELSE IF ~in.ai \/ FidRaises(in.title)
        THEN [status |-> "crash", feature |-> NoFeature, prompts |-> Prompts(in),
              story |-> story, wk |-> wk, use_llm |-> ul]
        ELSE [status |-> "feature", prompts |-> Prompts(in),
              feature |-> [id |-> Fid(in.title, in.place, in.idx),
                           lat |-> fin.lat, lng |-> fin.lng,
                           geometry |-> <<fin.lng, fin.lat>>,
                           decision |-> Decision(ul, wk, in.ai),
                           only |-> only],
              story |-> story, wk |-> wk, use_llm |-> ul]

\* ------------------------------------------------------------------------
\* Bounds and input domains
\* ------------------------------------------------------------------------
MaxItems == 2

P(a, b) == Pair(Num(a), Num(b))

\* the lat/lng fields of a parsed story reply: absent, numbers, a numeric
\* string, "nan", a non-numeric string, one field missing
StoryPairs ==
    {NoPair, P(10, 20), P(12, 22), Pair(NumStr(10), Num(20)),
     Pair(NaNV, Num(20)), Pair(StrV, Num(20)), Pair(Num(10), NoneV)}
\* what get_coords_from_wikidata returns: None or the P625 pair
WikiPairs == {NoPair, P(10, 20), P(10, 23), P(13, 23), P(50, 90)}
\* llm_only_geocode_parsed: None or a pair of floats
OnlyPairs == {NoPair, P(30, 40), Pair(NaNV, Num(40))}
\* llm_geocode_parsed: None or a pair of floats
GeoPairs == {NoPair, P(60, 70)}
Titles == {"", "T", "P", NumTitle}
Places == {"", "P"}

\* Inputs of one iteration.  Without a model the story pair is the link
\* lookup's coordinate and title = place_str = the link's page title
\* (lines 596-614); with an empty place string no lookup and no place-string
\* prompt happen (lines 621, 630).
ItemInputs ==
    { in \in [ai : BOOLEAN, idx : 0..(MaxItems - 1), title : Titles,
              place : Places, story : StoryPairs, only : OnlyPairs,
              wiki : WikiPairs, geo : GeoPairs] :
        /\ (in.place = "" => in.wiki = NoPair /\ in.geo = NoPair)
        /\ (~in.ai => /\ in.only = NoPair /\ in.geo = NoPair
                      /\ in.title = in.place
                      /\ in.story \in (WikiPairs \ {NoPair}) \cup {NoPair}
                      /\ (in.story = NoPair <=> in.place = "")) }

NoItem ==
    [ai |-> FALSE, idx |-> 0, title |-> "", place |-> "", story |-> NoPair,
     only |-> NoPair, wiki |-> NoPair, geo |-> NoPair]
Pending ==
    [status |-> "pending", feature |-> NoFeature, prompts |-> <<>>,
     story |-> NoPair, wk |-> NoPair, use_llm |-> FALSE]


\* ------------------------------------------------------------------------
\* RemoteLLMClient.ask: texts, responses, pure helpers
\* ------------------------------------------------------------------------
MaxRetry == 2
MaxLines == 3
\* calls of ask made on one client
MaxCalls == 2

\* line 103
DefaultProvider == "gemini-2.5-flash-lite"
Providers == {DefaultProvider, "local"}

\* the environment at construction: LLM_SERVER_PROVIDER and
\* LLM_DEFAULT_PROVIDER, each unset or set to a provider id
Unset == "<unset>"
Env(sv, df) == [server |-> sv, default |-> df]
Envs == {Env(Unset, Unset), Env("local", Unset), Env(Unset, "local"),
         Env("other", "local")}

ProviderOfSwapped(e) ==
    IF e.default # Unset THEN e.default
    ELSE IF e.server # Unset THEN e.server ELSE DefaultProvider

\* line 103: os.environ.get('LLM_SERVER_PROVIDER',
\*   os.environ.get('LLM_DEFAULT_PROVIDER', 'gemini-2.5-flash-lite'))
ProviderOf(e) ==
    IF e.server # Unset THEN e.server
    ELSE IF e.default # Unset THEN e.default ELSE DefaultProvider

\* the health probe of __init__: the GET raises, or answers with a status
Probes == {"conn", "200", "404", "500"}

ProbeOkAlways(pr) == TRUE

\* lines 107-113: available = r.ok, False when the GET raises
ProbeOk(pr) == pr = "200"

\* LLM_RETRY_BACKOFF in tenths of a second (0.1 s and the default 0.5 s)
Backoffs == {1, 5}

IsSpace(tok) == tok \in {" ", "\n"}

RECURSIVE LStrip(_)
LStrip(t) == IF t # <<>> /\ IsSpace(Head(t)) THEN LStrip(Tail(t)) ELSE t
RECURSIVE RStrip(_)
RStrip(t) ==
    IF t # <<>> /\ IsSpace(t[Len(t)]) THEN RStrip(SubSeq(t, 1, Len(t) - 1)) ELSE t
\* str.strip()
Strip(t) == RStrip(LStrip(t))

\* `pat in t` on token sequences
Contains(t, pat) ==
    \E i \in 1..(Len(t) - Len(pat) + 1) : SubSeq(t, i, i + Len(pat) - 1) = pat

\* line 142: the upstream auth-failure markers
HasMarker(t) ==
    \/ (Contains(t, <<"403">>) /\ Contains(t, <<"API", "key">>))
    \/ Contains(t, <<"Your", "API", "key">>)
    \/ Contains(t, <<"leaked">>)

NeedsFailoverAlways(t, prov) == HasMarker(t)

\* line 142: marker present and the payload's provider is not 'local'
NeedsFailover(t, prov) == HasMarker(t) /\ prov # "local"

Unknown == <<"Unknown">>
OrUnknown(t) == IF t = <<>> THEN Unknown ELSE t

ErrUnavailable == <<"Error:", "Remote", "server", "not", "available.">>
ErrFailed == <<"Error:", "Remote", "request", "failed">>

Texts ==
    {<<>>, <<" ">>, <<"ok">>, <<" ", "ok", " ">>, <<"403">>, <<"API", "key">>,
     <<"leaked">>, <<"403", "API", "key">>, <<"Your", "API", "key">>}

\* What the server does on one non-streaming POST:
\*   conn    no response (connection error, timeout)
\*   http    an error status; status 0 is an HTTPError that carries no response
\*   ok      a 2xx response; ct is the content type, shape the body:
\*           dict (JSON object whose 'response' is the string text), missing
\*           (JSON object without 'response'), nonstr (JSON object whose
\*           'response' is a number), nondict (JSON array), invalid (body is
\*           not JSON), text (non-JSON content type, body text)
Resp(kind, status, ct, shape, text) ==
    [kind |-> kind, status |-> status, ct |-> ct, shape |-> shape, text |-> text]
PostResponses ==
    {Resp("conn", 0, "", "", <<>>)}
    \cup {Resp("http", s, "", "", <<>>) : s \in {0, 404, 500}}
    \cup {Resp("ok", 200, "json", sh, <<>>) : sh \in {"missing", "nonstr", "nondict", "invalid"}}
    \cup {Resp("ok", 200, "json", "dict", t) : t \in Texts}
    \cup {Resp("ok", 200, "text", "text", t) : t \in Texts}

\* r.json() on a body that is not JSON raises requests' JSONDecodeError, a
\* RequestException
IsReqExc(r) == r.kind = "conn" \/ (r.kind = "ok" /\ r.shape = "invalid")
IsHttpErr(r) == r.kind = "http"
\* lines 136-137, 151: j.get on a non-dict; line 140: .strip() on a non-str
RaisesAttr(r) == r.kind = "ok" /\ r.shape \in {"nonstr", "nondict"}
\* lines 134-140: resp_text of a response that parsed
RespText(r) == IF r.shape = "missing" THEN <<>> ELSE Strip(r.text)

Outcome(r) ==
    IF r.kind = "http"
    THEN (IF r.status = 0 THEN "httpnone"
          ELSE IF r.status >= 500 /\ r.status < 600 THEN "http5" ELSE "http4")
    ELSE IF IsReqExc(r) THEN "reqexc"
    ELSE IF RaisesAttr(r) THEN "badshape" ELSE "ok"

StreamEligibleAny(r) == TRUE

\* line 170: status is None or 500 <= status < 600
StreamEligible(r) == r.status = 0 \/ (r.status >= 500 /\ r.status < 600)

\* the streaming response: an error, or SSE lines followed by a clean end or
\* by a broken connection
StreamLines ==
    {[f |-> "data", d |-> "chunk1"], [f |-> "data", d |-> "chunk2"],
     [f |-> "data", d |-> "[DONE]"], [f |-> "event", d |-> "done"],
     [f |-> "event", d |-> "error"]}
RECURSIVE SeqsUpTo(_, _)
SeqsUpTo(S, n) ==
    IF n = 0 THEN {<<>>}
    ELSE LET shorter == SeqsUpTo(S, n - 1)
         IN  shorter \cup {Append(q, x) : q \in shorter, x \in S}
StreamResponses ==
    {[kind |-> "conn", status |-> 0, lines |-> <<>>, broken |-> FALSE]}
    \cup {[kind |-> "http", status |-> s, lines |-> <<>>, broken |-> FALSE] : s \in {404, 500}}
    \cup {[kind |-> "ok", status |-> 200, lines |-> l, broken |-> b] :
            l \in SeqsUpTo(StreamLines, MaxLines), b \in BOOLEAN}

PartsAll(lines) ==
    LET IsPayload(l) == l.f = "data" /\ l.d # "[DONE]"
        kept == SelectSeq(lines, IsPayload)
    IN  [i \in 1..Len(kept) |-> kept[i].d]

\* lines 182-193: the payloads of the data: lines before the first [DONE]
RECURSIVE Parts(_)
Parts(lines) ==
    IF lines = <<>> THEN <<>>
    ELSE LET l == Head(lines)
         IN  IF l.f = "data"
             THEN (IF l.d = "[DONE]" THEN <<>> ELSE <<l.d>> \o Parts(Tail(lines)))
             ELSE Parts(Tail(lines))
ReachesDone(lines) == \E i \in 1..Len(lines) : lines[i] = [f |-> "data", d |-> "[DONE]"]
\* line 194: '\n'.join(parts)
RECURSIVE Join(_)
Join(parts) ==
    IF parts = <<>> THEN <<>>
    ELSE IF Len(parts) = 1 THEN <<parts[1]>>
    ELSE <<parts[1], "\n">> \o Join(Tail(parts))

NoStream == [kind |-> "none", status |-> 0, lines |-> <<>>, broken |-> FALSE]
NoResp == Resp("none", 0, "", "", <<>>)
NoResult == [kind |-> "none", text |-> <<>>]
Str(t) == [kind |-> "str", text |-> t]
Raised == [kind |-> "raise", text |-> <<>>]
NonStr == [kind |-> "nonstr", text |-> <<>>]

\* ------------------------------------------------------------------------
\* Files
\* ------------------------------------------------------------------------
\* out_path and its '.tmp' sibling (line 832)
FileNames == {"dest", "tmp"}
Absent == [st |-> "absent", feats |-> <<>>]
\* a file opened for writing whose document is not yet fully written
Partial == [st |-> "partial", feats |-> <<>>]
Unread == [st |-> "unread", feats |-> <<>>]

to_geojson_last(fs) ==
    [st |-> "complete", feats |-> IF fs = <<>> THEN <<>> ELSE <<fs[Len(fs)]>>]

\* lines 245-246 with json.dumps: the complete document of the features
to_geojson(fs) == [st |-> "complete", feats |-> fs]

IncrTargetDirect == "dest"

\* lines 832-833: the incremental write goes to the '.tmp' sibling
IncrTarget == "tmp"

\* a feature left in the destination file by an earlier run
OldFeature ==
    [id |-> Fid("old", "P", 0), lat |-> Num(10), lng |-> Num(20),
     geometry |-> <<Num(20), Num(10)>>, decision |-> "llm", only |-> NoPair]

\* the items of a run: replies that resolve to no coordinate, to a story
\* coordinate alone, to a knowledge-base coordinate alone, or to both
PipeInputs(ai, i) ==
    IF ai
    THEN {[ai |-> TRUE, idx |-> i, title |-> "T", place |-> "P", story |-> st,
           only |-> NoPair, wiki |-> wk, geo |-> NoPair] :
            st \in {NoPair, P(10, 20)}, wk \in {NoPair, P(50, 90)}}
    ELSE {[ai |-> FALSE, idx |-> i, title |-> "", place |-> "", story |-> NoPair,
           only |-> NoPair, wiki |-> NoPair, geo |-> NoPair],
          [ai |-> FALSE, idx |-> i, title |-> "P", place |-> "P", story |-> P(10, 20),
           only |-> NoPair, wiki |-> P(10, 20), geo |-> NoPair]}

\* ------------------------------------------------------------------------
\* Model replies: fence stripping, JSON parse, the place-string cascade
\* ------------------------------------------------------------------------
\* A reply is a sequence of tokens: a number (whole, unsigned), the degree
\* sign, the minute mark (' or U+2032), the ASCII double quote, the double
\* prime U+2033, a hemisphere letter, the words lat and lng, another word, a
\* comma, the fence openers ```json and ```, and a JSON value.  Coordinates
\* of this section are in arc-seconds (3600 per degree).
MaxSegs == 3
Arc == 3600

Tok(k, n, s, o) == [k |-> k, n |-> n, s |-> s, o |-> o]
TNum(n) == Tok("num", n, "", NoPair)
TSym(k) == Tok(k, 0, "", NoPair)
THemi(h) == Tok("hemi", 0, h, NoPair)
TWord(w) == Tok("word", 0, w, NoPair)
\* a JSON value: an object with lat and lng fields (s = "dict") or an array
\* of two numbers (s = "array")
TJson(shape, pr) == Tok("json", 0, shape, pr)
FenceJson == TSym("fence_json")
Fence == TSym("fence")
IsFence(t) == t \in {Fence, FenceJson}

\* the index of the first token of q at or after i that satisfies T, or 0
FirstFrom(q, i, T(_)) ==
    IF \E j \in i..Len(q) : T(q[j])
    THEN CHOOSE j \in i..Len(q) : T(q[j]) /\ \A l \in i..(j - 1) : ~T(q[l])
    ELSE 0

\* the text between the opener at index i and the next ``` (or the end)
AfterOpener(q, i) ==
    LET e == FirstFrom(q, i + 1, IsFence)
    IN  IF e = 0 THEN SubSeq(q, i + 1, Len(q)) ELSE SubSeq(q, i + 1, e - 1)

StripFenceTagless(q) ==
    LET f == FirstFrom(q, 1, IsFence)
    IN  IF f = 0 THEN q
        ELSE IF q[f] = FenceJson
        THEN <<TWord("json")>> \o AfterOpener(q, f)
        ELSE AfterOpener(q, f)

\* lines 501-509, 555-563, 645-653: the text after the first ```json up to
\* the next ```; failing that the text after the first ``` up to the next
\* ```; failing that the text itself (find of ``` also finds a ```json)
StripFence(q) ==
    LET j == FirstFrom(q, 1, LAMBDA t : t = FenceJson)
        f == FirstFrom(q, 1, IsFence)
    IN  IF j # 0 THEN AfterOpener(q, j)
        ELSE IF f # 0 THEN AfterOpener(q, f)
        ELSE q

\* json.loads: the text must be one JSON value and nothing else
JsonLoads(q) == IF Len(q) = 1 /\ q[1].k = "json" THEN q[1] ELSE Tok("fail", 0, "", NoPair)

NoEst == NoPair
\* float(x) of a JSON field, in arc-seconds
FloatArc(x) == IF x.t \in {"num", "numstr"} THEN Num(x.v * Arc) ELSE x

\* lines 664-679: a dict with both keys whose values convert to float
JsonStrategy(q) ==
    LET j == JsonLoads(q)
    IN  IF j.k = "json" /\ j.s = "dict" /\ BothSet(j.o)
           /\ CanFloat(j.o.lat) /\ CanFloat(j.o.lng)
        THEN Pair(FloatArc(j.o.lat), FloatArc(j.o.lng))
        ELSE NoEst

\* lines 510-526: the story record is the parsed dict; its lat/lng are
\* converted later (line 615)
StoryRecord(q) ==
    LET j == JsonLoads(q)
    IN  IF j.k = "json" /\ j.s = "dict" THEN j.o ELSE NoPair

DmsToDecimalUpperOnly(d, m, s, hemi) ==
    LET val == d * Arc + m * 60 + s
    IN  IF hemi \in {"S", "W"} THEN -Abs(val) ELSE val

\* lines 655-662: deg + min/60 + sec/3600, negated when hemi.upper() is S or W
DmsToDecimal(d, m, s, hemi) ==
    LET val == d * Arc + m * 60 + s
    IN  IF hemi \in {"S", "W", "s", "w"} THEN -Abs(val) ELSE val

\* line 689: the DMS regex at index i: number, degree sign, number, minute
\* mark, number, an optional ASCII double quote, hemisphere letter; the
\* length of the match, or 0
DmsAt(q, i) ==
    IF /\ i + 5 <= Len(q)
       /\ q[i].k = "num" /\ q[i + 1].k = "deg" /\ q[i + 2].k = "num"
       /\ q[i + 3].k = "min" /\ q[i + 4].k = "num"
    THEN IF q[i + 5].k = "hemi" THEN 6
         ELSE IF i + 6 <= Len(q) /\ q[i + 5].k = "quote" /\ q[i + 6].k = "hemi"
         THEN 7 ELSE 0
    ELSE 0
RECURSIVE DmsMatches(_, _)
DmsMatches(q, i) ==
    IF i > Len(q) THEN <<>>
    ELSE LET n == DmsAt(q, i)
         IN  IF n = 0 THEN DmsMatches(q, i + 1)
             ELSE <<[d |-> q[i].n, m |-> q[i + 2].n, s |-> q[i + 4].n,
                     h |-> q[i + n - 1].s]>> \o DmsMatches(q, i + n)

\* lines 688-705: tried when the text holds a degree sign, a prime or a
\* double quote; needs two matches
DmsStrategy(q) ==
    LET ms == DmsMatches(q, 1)
    IN  IF (\E i \in 1..Len(q) : q[i].k \in {"deg", "min", "quote"}) /\ Len(ms) >= 2
        THEN Pair(Num(DmsToDecimal(ms[1].d, ms[1].m, ms[1].s, ms[1].h)),
                  Num(DmsToDecimal(ms[2].d, ms[2].m, ms[2].s, ms[2].h)))
        ELSE NoEst

\* the numbers a regex sees in the text, in order: number tokens and the
\* numeric literals inside a JSON value
RECURSIVE NumsOf(_)
NumsOf(q) ==
    IF q = <<>> THEN <<>>
    ELSE LET t == Head(q)
             own == IF t.k = "num" THEN <<t.n>>
                    ELSE IF t.k = "json"
                    THEN (IF t.o.lat.t \in {"num", "numstr"} THEN <<t.o.lat.v>> ELSE <<>>)
                         \o (IF t.o.lng.t \in {"num", "numstr"} THEN <<t.o.lng.v>> ELSE <<>>)
                    ELSE <<>>
         IN  own \o NumsOf(Tail(q))

\* line 707: the first two numbers of the text
GenericStrategy(q) ==
    LET ns == NumsOf(q)
    IN  IF Len(ns) >= 2 THEN Pair(Num(ns[1] * Arc), Num(ns[2] * Arc)) ELSE NoEst

\* line 724: lat, a number, lng, a number, with no other number in between
LabeledStrategy(q) ==
    IF \E i \in 1..Len(q) :
          /\ i + 3 <= Len(q)
          /\ q[i] = TWord("lat") /\ q[i + 1].k = "num"
          /\ q[i + 2] = TWord("lng") /\ q[i + 3].k = "num"
    THEN LET i == CHOOSE i \in 1..Len(q) :
                    /\ i + 3 <= Len(q)
                    /\ q[i] = TWord("lat") /\ q[i + 1].k = "num"
                    /\ q[i + 2] = TWord("lng") /\ q[i + 3].k = "num"
                    /\ \A l \in 1..(i - 1) :
                          ~(/\ q[l] = TWord("lat") /\ q[l + 1].k = "num"
                            /\ q[l + 2] = TWord("lng") /\ q[l + 3].k = "num")
         IN  Pair(Num(q[i + 1].n * Arc), Num(q[i + 3].n * Arc))
    ELSE NoEst

\* lines 741-755: the whole text is words, a comma, words; the place is
\* looked up in the knowledge base (kb: what the lookup returns)
IsCityCountry(q) ==
    /\ \E c \in 2..(Len(q) - 1) :
          /\ q[c].k = "comma"
          /\ \A i \in 1..Len(q) : i # c => q[i].k \in {"word", "num", "hemi"}
CityStrategy(q, kb) == IF IsCityCountry(q) THEN kb ELSE NoEst

Won(name, est) == IF est = NoEst THEN <<>> ELSE <<[by |-> name, est |-> est]>>

\* lines 645-757: the strategies that assigned lat_wiki/lng_wiki, in the
\* order they did, and the value left at the end
GeoParse(raw, kb) ==
    LET q    == StripFence(raw)
        js   == JsonStrategy(q)
        dms  == DmsStrategy(q)
        gen  == GenericStrategy(q)
        ok3  == dms # NoEst \/ gen # NoEst
        lab  == IF ok3 THEN NoEst ELSE LabeledStrategy(q)
        ok4  == ok3 \/ lab # NoEst
        city == IF ok4 THEN NoEst ELSE CityStrategy(q, kb)
        wins == IF js # NoEst THEN Won("json", js)
                ELSE Won("dms", dms) \o Won("generic", gen)
                     \o Won("labeled", lab) \o Won("city", city)
    IN  [status |-> "done", cleaned |-> q, matches |-> DmsMatches(q, 1),
         wins |-> wins,
         est |-> IF wins = <<>> THEN NoEst ELSE wins[Len(wins)].est]

\* lines 501-533: the story record of a reply
StoryParse(raw) == [status |-> "done", rec |-> StoryRecord(StripFence(raw))]

NoGeoParse == [status |-> "pending", cleaned |-> <<>>, matches |-> <<>>,
               wins |-> <<>>, est |-> NoEst]
NoStoryParse == [status |-> "pending", rec |-> NoPair]

\* the replies the parsers are run on: up to MaxSegs pieces of text in any
\* order, and pairs of DMS groups with every hemisphere letter and seconds
\* mark; each bare or inside a code fence
Dms(d, m, s, mark, h) ==
    <<TNum(d), TSym("deg"), TNum(m), TSym("min"), TNum(s)>>
    \o (IF mark = "" THEN <<>> ELSE <<TSym(mark)>>) \o <<THemi(h)>>
Segs ==
    {<<TNum(12)>>, <<TWord("lat"), TNum(10)>>, <<TWord("lng"), TNum(20)>>,
     <<TWord("Paris")>>, <<TSym("comma"), TWord("France")>>,
     <<TJson("dict", P(10, 20))>>, <<TJson("dict", Pair(StrV, Num(20)))>>,
     <<TJson("array", P(10, 20))>>,
     Dms(40, 26, 46, "quote", "N"), Dms(79, 58, 56, "quote", "W")}
RECURSIVE Texts3(_)
Texts3(n) ==
    IF n = 0 THEN {<<>>}
    ELSE LET shorter == Texts3(n - 1)
         IN  shorter \cup {q \o g : q \in shorter, g \in Segs}
DmsTexts ==
    {Dms(40, 26, 46, mk, h1) \o Dms(79, 58, 56, "quote", h2) :
        mk \in {"quote", "", "dprime"}, h1 \in {"N", "S", "n", "s"},
        h2 \in {"E", "W", "e", "w"}}
Bodies == Texts3(MaxSegs) \cup DmsTexts
Wraps == {"none", "json_closed", "json_open", "plain_closed", "plain_open", "prose"}
\* the reply as the model sent it
Wrap(w, b) ==
    IF w = "json_closed" THEN <<FenceJson>> \o b \o <<Fence>>
    ELSE IF w = "json_open" THEN <<FenceJson>> \o b
    ELSE IF w = "plain_closed" THEN <<Fence>> \o b \o <<Fence>>
    ELSE IF w = "plain_open" THEN <<Fence>> \o b
    ELSE IF w = "prose" THEN <<TWord("Here")>> \o <<FenceJson>> \o b \o <<Fence, TWord("Done")>>
    ELSE b
\* what the knowledge base returns for a 'City, Country' reply
KbGuesses == {NoPair, P(48 * Arc, 2 * Arc)}

\* ------------------------------------------------------------------------
\* The listing page: day selection and item extraction
\* ------------------------------------------------------------------------

\* days the page carries, counted back from today (offset 0)
MaxBack == 4
\* the selection looks at range(0, 4): offsets 0 to LastOffset
DaysTried == 4
LastOffset == DaysTried - 1

\* A day on the page: its block (the div whose id is the date) is missing,
\* or its content div is empty, holds only a bold category header, or holds
\* a header and a list; a 'current-events-more' sibling with a list may
\* follow.  wrapped: every day's block sits inside a div.current-events.
DayShapes ==
    {[main |-> "missing", more |-> "none"]}
    \cup [main : {"empty", "header", "list"}, more : {"none", "list"}]
Pages == [days : [1..(MaxBack + 1) -> DayShapes], wrapped : BOOLEAN]
NoPage == [days |-> <<>>, wrapped |-> FALSE]
NoListing == [status |-> "pending", sel |-> 0 - 1, blocks |-> <<>>, items |-> <<>>]

Blk(d, kind) == [day |-> d, kind |-> kind]
\* _blocks_for_day: the block with the day's id, then the 'more' siblings
BlocksForDay(pg, d) ==
    LET day == pg.days[d + 1]
    IN  IF day.main = "missing" THEN <<>>
        ELSE <<Blk(d, "main")>>
             \o (IF day.more = "none" THEN <<>> ELSE <<Blk(d, "more")>>)
\* what the first content div found under a block holds; under an enclosing
\* container that is the content div of the day's own block
ContentOf(pg, b) ==
    IF b.kind = "more" THEN pg.days[b.day + 1].more ELSE pg.days[b.day + 1].main
\* a p or ul child with text
HasText(pg, b) == ContentOf(pg, b) \in {"header", "list"}

\* the loop over range(0, 4): a day with blocks but no content is skipped
SelectFromAnyBlock(pg, offset) ==
    LET first == {d \in offset..LastOffset : BlocksForDay(pg, d) # <<>>}
    IN  IF first = {} THEN [day |-> 0 - 1, blocks |-> <<>>]
        ELSE LET d == CHOOSE x \in first : \A y \in first : x <= y
             IN  [day |-> d, blocks |-> BlocksForDay(pg, d)]
RECURSIVE SelectFrom(_, _)
SelectFrom(pg, offset) ==
    IF offset > LastOffset THEN [day |-> 0 - 1, blocks |-> <<>>]
    ELSE LET cand_blocks == BlocksForDay(pg, offset)
             has_content == \E i \in 1..Len(cand_blocks) : HasText(pg, cand_blocks[i])
         IN  IF cand_blocks # <<>> /\ has_content
             THEN [day |-> offset, blocks |-> cand_blocks]
             ELSE SelectFrom(pg, offset + 1)

\* the fallback: every div of class current-events-main on the page
RECURSIVE MainBlocks(_, _)
MainBlocks(pg, d) ==
    IF d > Len(pg.days) - 1 THEN <<>>
    ELSE (IF pg.days[d + 1].main = "missing" THEN <<>> ELSE <<Blk(d, "main")>>)
         \o MainBlocks(pg, d + 1)
\* the div.current-events containers with text, none of which is a block
\* already collected
RECURSIVE Additional(_, _)
Additional(pg, d) ==
    IF d > Len(pg.days) - 1 THEN <<>>
    ELSE (IF pg.wrapped /\ pg.days[d + 1].main # "missing" /\ HasText(pg, Blk(d, "cont"))
          THEN <<Blk(d, "cont")>> ELSE <<>>)
         \o Additional(pg, d + 1)
DateBlocks(pg) ==
    LET picked == SelectFrom(pg, 0).blocks
        base == IF picked # <<>> THEN picked ELSE MainBlocks(pg, 0)
    IN  base \o Additional(pg, 0)

\* the top-level li entries of a content div: two per list
Entry(d, src, k) == [day |-> d, src |-> src, k |-> k]
EntriesOf(pg, b) ==
    IF ContentOf(pg, b) # "list" THEN <<>>
    ELSE LET src == IF b.kind = "more" THEN "more" ELSE "main"
         IN  <<Entry(b.day, src, 1), Entry(b.day, src, 2)>>
RECURSIVE ItemsOf(_, _)
ItemsOf(pg, blocks) ==
    IF blocks = <<>> THEN <<>>
    ELSE EntriesOf(pg, Head(blocks)) \o ItemsOf(pg, Tail(blocks))
Listing(pg) ==
    [status |-> "done", sel |-> SelectFrom(pg, 0).day,
     blocks |-> DateBlocks(pg), items |-> ItemsOf(pg, DateBlocks(pg))]

\* ------------------------------------------------------------------------
\* The model handle: startup choice, _load_local_model, _ask_with_fallback
\* ------------------------------------------------------------------------
\* requests made through _ask_with_fallback in one run
MaxReqs == 3

\* the local model file: missing, present but the Llama load fails (or
\* llama_cpp is not installed), present and loadable
Ggufs == {"absent", "broken", "ok"}
\* what RemoteLLMClient.ask does: returns an answer, returns a string that
\* begins with 'Error:', raises
RemoteOuts == {"text", "error", "raise"}
\* what AIModel.ask does: returns an answer or 'Error: Generation failed.'
LocalOuts == {"text", "error"}

Call(to, out) == [to |-> to, out |-> out]

\* lines 256-280: the handle at startup and the loads attempted for it
StartHandle(up, allow, g) ==
    IF up THEN [handle |-> "remote", loads |-> <<>>]
    ELSE IF allow /\ g # "absent"
    THEN [handle |-> IF g = "ok" THEN "local" ELSE "none", loads |-> <<g>>]
    ELSE [handle |-> "none", loads |-> <<>>]

\* lines 292-307: the handle if it is a loaded local model; otherwise a new
\* AIModel when the file exists, which becomes the handle when it loaded
LoadLocalModel(h, g) ==
    IF h = "local" THEN [lm |-> TRUE, handle |-> h, loads |-> <<>>]
    ELSE IF g = "absent" THEN [lm |-> FALSE, handle |-> h, loads |-> <<>>]
    ELSE [lm |-> g = "ok", handle |-> IF g = "ok" THEN "local" ELSE h, loads |-> <<g>>]

AskWithFallbackOnce(h, g, out, lout) ==
    IF h = "none"
    THEN LET l == LoadLocalModel(h, g)
         IN  [handle |-> l.handle, loads |-> l.loads,
              calls |-> IF l.lm THEN <<Call("local", lout)>> ELSE <<>>]
    ELSE LET first == Call(h, IF h = "local" /\ out = "raise" THEN "text" ELSE out)
         IN  IF first.out = "text"
             THEN [handle |-> h, loads |-> <<>>, calls |-> <<first>>]
             ELSE LET l == LoadLocalModel(h, g)
                  IN  [handle |-> h, loads |-> l.loads,
                       calls |-> <<first>> \o (IF l.lm THEN <<Call("local", lout)>> ELSE <<>>)]

\* lines 309-331: one request; h is ai_model, out what the handle's ask does
\* when it is the remote client, lout what the local model's ask does
AskWithFallback(h, g, out, lout) ==
    IF h = "none"
    THEN LET l == LoadLocalModel(h, g)
         IN  [handle |-> l.handle, loads |-> l.loads,
              calls |-> IF l.lm THEN <<Call("local", lout)>> ELSE <<>>]
    ELSE LET first == Call(h, IF h = "local" /\ out = "raise" THEN "text" ELSE out)
         IN  IF first.out = "text"
             THEN [handle |-> h, loads |-> <<>>, calls |-> <<first>>]
             ELSE LET l == LoadLocalModel(h, g)
                  IN  [handle |-> l.handle, loads |-> l.loads,
                       calls |-> <<first>> \o (IF l.lm THEN <<Call("local", lout)>> ELSE <<>>)]

\* ------------------------------------------------------------------------
\* The id source string of a feature
\* ------------------------------------------------------------------------
\* items of a listing, and features emitted, in the runs of the id model
MaxIdx == 11
MaxEmit == 2

\* titles and place strings as character sequences, some holding '|' or a
\* digit
TitleTexts == {<<>>, <<"T">>, <<"T", "|", "P">>}
PlaceTexts == {<<>>, <<"1">>, <<"P", "|", "1">>}

\* str(idx), most significant digit first
DigitOf(d) == <<"0", "1", "2", "3", "4", "5", "6", "7", "8", "9">>[d + 1]
RECURSIVE StrOfNat(_)
StrOfNat(n) == IF n < 10 THEN <<DigitOf(n)>> ELSE StrOfNat(n \div 10) \o <<DigitOf(n % 10)>>

FidSrcNoSep(title, place, idx) == title \o <<"|">> \o place \o StrOfNat(idx)

\* line 790: (title or '') + '|' + (place_str or '') + '|' + str(idx)
FidSrc(title, place, idx) == title \o <<"|">> \o place \o <<"|">> \o StrOfNat(idx)

\* ------------------------------------------------------------------------
\* State
\* ------------------------------------------------------------------------
\* one item on every input
VARIABLES item, res
\* RemoteLLMClient: the fields set by __init__ and the retry configuration
VARIABLES available, provider, retry_count
\* the environment and the probe's answer at construction, the backoff base
VARIABLES env, probe, backoff_base
\* the server's answer to the streaming request
VARIABLES stream_in
\* one call of ask: position, locals, the requests sent and the sleeps made
VARIABLES apc, attempt, payload_provider, resp_text, posts, sleeps, result
\* the server's answer to the latest request
VARIABLES last_resp
\* the calls this client has completed, and whether one of them sent the
\* failover POST
VARIABLES ncalls, prior_failover
\* one run of fetch_and_process_current_events: position, the model handle,
\* the listing's length, the loop index, the accumulator
VARIABLES pc, ai_model, n_items, idx, features
\* the files of the output directory, the diagnostic log, whether the latest
\* incremental write raised, where the process was when it was terminated
VARIABLES files, marker, dbglog, write_failed, killed_at
\* whether the write of the running marker raised
VARIABLES marker_failed
\* what a concurrent reader of the destination file last read
VARIABLES observed

\* a reply of the model (its text and the fence around it), the lookup
\* answer for a place guess, and what the two parsers made of the reply
VARIABLES reply_body, reply_wrap, kb_guess, geo_parse, story_parse
\* the listing page and what the extraction made of it
VARIABLES page, listing
\* the model handle of a run: the ALLOW_LOCAL_LLM flag, the state of the
\* local model file, whether the remote server answered the health probe,
\* the handle (ai_model), the position, the requests made through
\* _ask_with_fallback, the asks sent and the local model loads attempted
VARIABLES allow_local, gguf, remote_up, handle, hpc, nreq, hlog, loads, switched
\* the item loop seen from the ids: the position, the index enumerate has
\* reached, and the id source string of each feature emitted so far
VARIABLES id_pc, id_idx, id_srcs

reconVars == <<item, res>>
parseVars == <<reply_body, reply_wrap, kb_guess, geo_parse, story_parse>>
listVars == <<page, listing>>
idVars == <<id_pc, id_idx, id_srcs>>
handleVars == <<allow_local, gguf, remote_up, handle, hpc, nreq, hlog, loads, switched>>
askVars == <<available, provider, retry_count, apc, attempt, payload_provider,
             resp_text, posts, sleeps, result, last_resp, env, probe,
             backoff_base, stream_in, ncalls, prior_failover>>
pipeVars == <<pc, ai_model, n_items, idx, features, files, marker, dbglog,
              write_failed, killed_at, observed, marker_failed>>
vars == <<reconVars, askVars, pipeVars, parseVars, listVars, handleVars, idVars>>

ReconIdle == item = NoItem /\ res = Pending
AskIdle ==
    /\ available = FALSE /\ provider = DefaultProvider /\ retry_count = 0
    /\ apc = "idle" /\ attempt = 0 /\ payload_provider = ""
    /\ resp_text = <<>> /\ posts = <<>> /\ sleeps = <<>> /\ result = NoResult
    /\ last_resp = NoResp
    /\ env = Env(Unset, Unset) /\ probe = "conn" /\ backoff_base = 1
    /\ stream_in = NoStream
    /\ ncalls = 0 /\ prior_failover = FALSE
ParseIdle ==
    /\ reply_body = <<>> /\ reply_wrap = "none" /\ kb_guess = NoPair
    /\ geo_parse = NoGeoParse /\ story_parse = NoStoryParse
ListIdle == page = NoPage /\ listing = NoListing
IdIdle == id_pc = "off" /\ id_idx = 0 /\ id_srcs = <<>>
HandleIdle ==
    /\ allow_local = FALSE /\ gguf = "absent" /\ remote_up = FALSE
    /\ handle = "unset" /\ hpc = "off" /\ nreq = 0
    /\ hlog = <<>> /\ loads = <<>> /\ switched = FALSE
PipeIdle ==
    /\ pc = "off" /\ ai_model = FALSE /\ n_items = 0 /\ idx = 0
    /\ features = <<>> /\ files = [f \in FileNames |-> Absent]
    /\ marker = FALSE /\ dbglog = <<>> /\ write_failed = FALSE
    /\ marker_failed = FALSE
    /\ killed_at = "" /\ observed = Unread

\* ------------------------------------------------------------------------
\* Reconciliation of one item on every input
\* ------------------------------------------------------------------------
InitRecon ==
    /\ ParseIdle /\ ListIdle /\ HandleIdle /\ IdIdle
    /\ item \in ItemInputs
    /\ res = Pending
    /\ AskIdle
    /\ PipeIdle

Resolve ==
    /\ res.status = "pending"
    /\ res' = ResolveItem(item)
    /\ UNCHANGED <<item, askVars, pipeVars, parseVars, listVars, handleVars, idVars>>

NextRecon == Resolve

SpecRecon == InitRecon /\ [][NextRecon]_vars

Emitted == res.status = "feature"
KBHit == item.place # "" /\ item.wiki # NoPair
Within(a, b) == a.t = "num" /\ b.t = "num" /\ a.v - b.v <= 2 /\ b.v - a.v <= 2
AllFinite(p) == p.lat.t = "num" /\ p.lng.t = "num"

\* C2: with a story coordinate and a knowledge-base coordinate more than 2.0
\* degrees apart on some axis and no event-text estimate, the feature carries
\* the knowledge-base coordinate and decision 'wikidata'.
C2_Claim ==
    (/\ Emitted /\ KBHit /\ item.only = NoPair
     /\ AllFinite(res.story) /\ AllFinite(item.wiki)
     /\ ~(Within(res.story.lat, item.wiki.lat) /\ Within(res.story.lng, item.wiki.lng)))
    => /\ res.feature.lat = item.wiki.lat
       /\ res.feature.lng = item.wiki.lng
       /\ res.feature.decision = "wikidata"

\* C3: with a story coordinate and a knowledge-base coordinate, decision is
\* 'llm' exactly when both axes differ by at most 2.0 degrees.
C3_DecisionLlmIffWithin ==
    (Emitted /\ KBHit /\ BothSet(res.story))
    => (res.feature.decision = "llm"
        <=> (/\ Within(res.story.lat, item.wiki.lat)
             /\ Within(res.story.lng, item.wiki.lng)))

C3_Witness ==
    /\ Emitted /\ KBHit
    /\ res.story = P(12, 22) /\ item.wiki = P(10, 20)
    /\ res.feature.decision = "llm"

\* C4: a feature of an item with a parsed event-text estimate has that
\* estimate as its lat/lng and as its geometry (longitude first).
C4_OnlyTakesPrecedence ==
    (Emitted /\ item.only # NoPair)
    => /\ res.feature.lat = item.only.lat
       /\ res.feature.lng = item.only.lng
       /\ res.feature.geometry = <<item.only.lng, item.only.lat>>

C4_Witness ==
    /\ Emitted /\ item.only = P(30, 40)
    /\ res.story = P(10, 20) /\ item.wiki = P(50, 90)
    /\ res.feature.lat = Num(30)

\* C5: decision names the source of the final coordinate: 'llm' only when it
\* is a model reply's coordinate, 'wikidata' only when it is the coordinate
\* the knowledge-base lookup returned.
C5_Claim ==
    Emitted
    => /\ (res.feature.decision = "llm"
           => Pair(res.feature.lat, res.feature.lng) \in {res.story, item.only})
       /\ (res.feature.decision = "wikidata"
           => KBHit /\ Pair(res.feature.lat, res.feature.lng) = item.wiki)

\* C6: every emitted feature has finite numeric lat and lng.
C6_Claim ==
    Emitted => IsFinite(res.feature.lat) /\ IsFinite(res.feature.lng)

\* C19: the id of an emitted feature is a function of the item's title, place
\* string and sequence index only: whatever the coordinates, the decision and
\* the loaded model are, the same three values give the same id.
C19_IdFromTitlePlaceIdx ==
    Emitted => res.feature.id = <<item.title, item.place, item.idx>>

C19_Witness ==
    /\ Emitted /\ item.title = "T" /\ item.place = "P" /\ item.idx = 1
    /\ item.only # NoPair /\ res.feature.decision = "wikidata"

\* a pair whose two fields resolve to finite numbers
Usable(p) == AllFinite(FloatConv(p))
\* C21: an item with no usable story coordinate, no knowledge-base hit and
\* no place-string estimate produces no feature (and the run goes on).
C21_Claim ==
    (/\ res.status # "pending" /\ ~Usable(item.story)
     /\ item.wiki = NoPair /\ item.geo = NoPair)
    => res.status = "none"

\* C22: with a model loaded, no reply of the model makes the processing of
\* an item raise.
C22_Claim == item.ai => res.status # "crash"

\* C25: when the knowledge-base lookup of the place string returned a
\* coordinate, no place-string geocode prompt is sent for the item, whatever
\* the model would have answered.
C25_NoGeoPromptOnKBHit ==
    /\ (res.status # "pending" /\ item.wiki # NoPair)
       => \A i \in 1..Len(res.prompts) : res.prompts[i] # "geo"
    /\ (res.status # "pending" /\ res.wk # item.wiki)
       => item.wiki = NoPair /\ (res.wk # NoPair => res.prompts[Len(res.prompts)] = "geo")

C25_Witness ==
    /\ Emitted /\ KBHit /\ item.geo # NoPair
    /\ res.prompts = <<"story", "only">> /\ res.wk = item.wiki

\* the item's only parsed coordinate is the event-text estimate
OnlyAlone ==
    /\ res.status # "pending" /\ item.ai /\ item.only # NoPair
    /\ ~BothSet(res.story) /\ ~BothSet(res.wk)

\* C36: an item whose only parsed coordinate is the event-text estimate
\* yields no feature; a feature is emitted exactly when the story pair or
\* the knowledge-base/place-string pair is present.
C36_Claim ==
    /\ OnlyAlone => ~Emitted
    /\ res.status # "pending" => (Emitted <=> (BothSet(res.story) \/ BothSet(res.wk)))

Pow2Flat(n) == 1

RECURSIVE Pow2(_)
Pow2(n) == IF n = 0 THEN 1 ELSE 2 * Pow2(n - 1)

\* one entry per request sent: which request, the provider in its payload,
\* how the server answered and whether the answer's text held a marker
Post(mode, prov, r, mk) ==
    [mode |-> mode, provider |-> prov, outcome |-> Outcome(r), marker |-> mk]

InitAsk ==
    /\ ParseIdle /\ ListIdle /\ HandleIdle /\ IdIdle
    /\ ReconIdle
    /\ PipeIdle
    /\ env \in Envs
    /\ probe \in Probes
    /\ backoff_base \in Backoffs
    /\ available = ProbeOk(probe)
    /\ provider = ProviderOf(env)
    /\ retry_count \in (0 - 1)..MaxRetry
    /\ stream_in = NoStream
    /\ apc = "idle" /\ attempt = 0 /\ payload_provider = ""
    /\ resp_text = <<>> /\ posts = <<>> /\ sleeps = <<>> /\ result = NoResult
    /\ last_resp = NoResp
    /\ ncalls = 0 /\ prior_failover = FALSE

\* lines 116-130: the availability check, the payload and the first loop test
AskStart ==
    /\ apc = "idle"
    /\ IF ~available
       THEN /\ result' = Str(ErrUnavailable)
            /\ apc' = "done"
            /\ UNCHANGED payload_provider
       ELSE /\ payload_provider' = provider
            /\ IF 0 <= retry_count
               THEN apc' = "loop" /\ UNCHANGED result
               ELSE apc' = "done" /\ result' = Str(ErrFailed)
    /\ UNCHANGED <<reconVars, parseVars, listVars, handleVars, idVars, pipeVars, ncalls, prior_failover, env, probe, backoff_base, stream_in,
                   available, provider, retry_count, attempt,
                   resp_text, posts, sleeps, last_resp>>

RetryStepNoSleep ==
    /\ attempt' = attempt + 1
    /\ UNCHANGED <<sleeps, apc, result, payload_provider, resp_text>>

\* lines 164-169 and 203-208: sleep backoff_base * 2^attempt and go round
\* the loop again
RetryStep ==
    /\ sleeps' = Append(sleeps, backoff_base * Pow2(attempt))
    /\ attempt' = attempt + 1
    /\ UNCHANGED <<apc, result, payload_provider, resp_text>>

GiveUp ==
    /\ apc' = "done"
    /\ result' = Str(ErrFailed)
    /\ UNCHANGED <<attempt, sleeps, payload_provider, resp_text>>

\* lines 130-169, 200-212: one iteration of the retry loop
AskPost(r) ==
    /\ apc = "loop"
    /\ attempt <= retry_count
    /\ last_resp' = r
    /\ posts' = Append(posts, Post("post", payload_provider, r,
                                   Outcome(r) = "ok" /\ HasMarker(RespText(r))))
    /\ IF RaisesAttr(r)
       THEN /\ apc' = "done"
            /\ result' = Raised
            /\ UNCHANGED <<attempt, sleeps, payload_provider, resp_text>>
       ELSE IF IsHttpErr(r)
       THEN IF attempt < retry_count THEN RetryStep
            ELSE IF StreamEligible(r)
            THEN /\ apc' = "stream"
                 /\ UNCHANGED <<result, attempt, sleeps, payload_provider, resp_text>>
            ELSE GiveUp
       ELSE IF IsReqExc(r)
       THEN IF attempt < retry_count THEN RetryStep ELSE GiveUp
       ELSE IF NeedsFailover(RespText(r), payload_provider)
       THEN /\ payload_provider' = "local"
            /\ resp_text' = RespText(r)
            /\ apc' = "failover"
            /\ UNCHANGED <<result, attempt, sleeps>>
       ELSE /\ apc' = "done"
            /\ result' = Str(OrUnknown(RespText(r)))
            /\ UNCHANGED <<attempt, sleeps, payload_provider, resp_text>>
    /\ UNCHANGED <<reconVars, parseVars, listVars, handleVars, idVars, pipeVars, ncalls, prior_failover, env, probe, backoff_base, stream_in,
                   available, provider, retry_count>>

\* lines 145-155: the single POST with provider 'local'; any exception falls
\* through to `return resp_text`
FailoverResult(r, first) ==
    IF r.kind # "ok" \/ r.shape \in {"nondict", "invalid"} THEN Str(first)
    ELSE IF r.shape = "nonstr" THEN NonStr
    ELSE IF r.shape = "missing" THEN Str(Unknown)
    ELSE IF r.ct = "json" THEN Str(OrUnknown(r.text))
    ELSE Str(OrUnknown(Strip(r.text)))

AskFailoverThenStream(r) ==
    /\ apc = "failover"
    /\ last_resp' = r
    /\ posts' = Append(posts, Post("failover", payload_provider, r, FALSE))
    /\ IF r.kind = "http" /\ StreamEligible(r)
       THEN apc' = "stream" /\ UNCHANGED result
       ELSE apc' = "done" /\ result' = FailoverResult(r, resp_text)
    /\ UNCHANGED <<reconVars, parseVars, listVars, handleVars, idVars, pipeVars, ncalls, prior_failover, env, probe, backoff_base, stream_in,
                   available, provider, retry_count, attempt,
                   payload_provider, resp_text, sleeps>>

AskFailover(r) ==
    /\ apc = "failover"
    /\ last_resp' = r
    /\ posts' = Append(posts, Post("failover", payload_provider, r, FALSE))
    /\ result' = FailoverResult(r, resp_text)
    /\ apc' = "done"
    /\ UNCHANGED <<reconVars, parseVars, listVars, handleVars, idVars, pipeVars, ncalls, prior_failover, env, probe, backoff_base, stream_in,
                   available, provider, retry_count, attempt,
                   payload_provider, resp_text, sleeps>>

StreamResultSwallow(r) ==
    IF r.kind # "ok" \/ (r.broken /\ ~ReachesDone(r.lines)) THEN Str(Unknown)
    ELSE Str(OrUnknown(Strip(Join(Parts(r.lines)))))

\* lines 171-199: the streaming request after the last 5xx
StreamResult(r) ==
    IF r.kind # "ok" \/ (r.broken /\ ~ReachesDone(r.lines)) THEN Str(ErrFailed)
    ELSE Str(OrUnknown(Strip(Join(Parts(r.lines)))))

AskStream(r) ==
    /\ apc = "stream"
    /\ last_resp' = Resp(r.kind, r.status, "", "", <<>>)
    /\ posts' = Append(posts, [mode |-> "stream", provider |-> payload_provider,
                               outcome |-> IF r.kind = "ok" THEN "ok" ELSE "fail",
                               marker |-> FALSE])
    /\ result' = StreamResult(r)
    /\ stream_in' = r
    /\ apc' = "done"
    /\ UNCHANGED <<reconVars, parseVars, listVars, handleVars, idVars, pipeVars, ncalls, prior_failover, env, probe, backoff_base,
                   available, provider, retry_count, attempt,
                   payload_provider, resp_text, sleeps>>

AskReturnKeepsLocal ==
    /\ apc = "done"
    /\ ncalls + 1 < MaxCalls
    /\ ncalls' = ncalls + 1
    /\ prior_failover' = (prior_failover \/ \E i \in 1..Len(posts) : posts[i].mode = "failover")
    /\ provider' = IF payload_provider = "" THEN provider ELSE payload_provider
    /\ apc' = "idle" /\ attempt' = 0 /\ payload_provider' = ""
    /\ resp_text' = <<>> /\ posts' = <<>> /\ sleeps' = <<>>
    /\ result' = NoResult /\ last_resp' = NoResp /\ stream_in' = NoStream
    /\ UNCHANGED <<reconVars, parseVars, listVars, handleVars, idVars, pipeVars, env, probe,
                   backoff_base, available, retry_count>>

\* the call is over (returned or raised) and the caller asks again: payload,
\* attempt, resp_text are locals of ask (lines 119-129) and gone; the client
\* object is the same one
AskReturn ==
    /\ apc = "done"
    /\ ncalls + 1 < MaxCalls
    /\ ncalls' = ncalls + 1
    /\ prior_failover' = (prior_failover \/ \E i \in 1..Len(posts) : posts[i].mode = "failover")
    /\ apc' = "idle" /\ attempt' = 0 /\ payload_provider' = ""
    /\ resp_text' = <<>> /\ posts' = <<>> /\ sleeps' = <<>>
    /\ result' = NoResult /\ last_resp' = NoResp /\ stream_in' = NoStream
    /\ UNCHANGED <<reconVars, parseVars, listVars, handleVars, idVars, pipeVars, env, probe,
                   backoff_base, available, provider, retry_count>>

NextAsk ==
    \/ AskStart
    \/ AskReturn
    \/ \E r \in PostResponses : AskPost(r)
    \/ \E r \in PostResponses : AskFailover(r)
    \/ \E r \in StreamResponses : AskStream(r)

SpecAsk == InitAsk /\ [][NextAsk]_vars

\* C1: ask never raises and always returns a string.
C1_Claim == apc = "done" => result.kind = "str"

IsFailover(i) == posts[i].mode = "failover"
\* C10: a failover POST is sent exactly when a successful reply held a marker
\* and the provider was not 'local'; it carries provider 'local', is the last
\* request of the call (so it is sent once and never retried), and when it
\* succeeds its text is what ask returns.
C10_FailoverOnce ==
    /\ \A i \in 1..Len(posts) :
          IsFailover(i)
          => /\ i = Len(posts) /\ i > 1
             /\ posts[i].provider = "local"
             /\ posts[i - 1].mode = "post" /\ posts[i - 1].outcome = "ok"
             /\ posts[i - 1].marker /\ posts[i - 1].provider # "local"
    /\ apc = "done"
       => /\ \A i \in 1..Len(posts) :
                (/\ posts[i].mode = "post" /\ posts[i].outcome = "ok"
                 /\ posts[i].marker /\ posts[i].provider # "local")
                => (i < Len(posts) /\ IsFailover(i + 1))
          /\ (/\ posts # <<>> /\ IsFailover(Len(posts))
              /\ posts[Len(posts)].outcome = "ok"
              /\ last_resp.shape \in {"dict", "text"}
              /\ Strip(last_resp.text) # <<>>)
             => /\ result.kind = "str"
                /\ Strip(result.text) = Strip(last_resp.text)

C10_Witness ==
    /\ apc = "done" /\ Len(posts) = 3
    /\ posts[2].marker /\ IsFailover(3) /\ posts[3].outcome = "ok"
    /\ result = Str(<<"ok">>)

\* the requests of the retry loop, in order
MainPosts == SelectSeq(posts, LAMBDA p : p.mode = "post")
HasStream == \E i \in 1..Len(posts) : posts[i].mode = "stream"
Failed == {"http4", "http5", "httpnone", "reqexc"}

\* C11: within one call the sleeps are backoff_base, 2*backoff_base,
\* 4*backoff_base, ... in order, one per retry whatever the failure was (an
\* HTTP error or a request exception), and never more than retry_count.
C11_BackoffSchedule ==
    /\ Len(sleeps) = attempt
    /\ retry_count >= 0 => Len(sleeps) <= retry_count
    /\ sleeps # <<>> => sleeps[1] = backoff_base
    /\ \A i \in 1..(Len(sleeps) - 1) : sleeps[i + 1] = 2 * sleeps[i]
    /\ \A i \in 1..Len(sleeps) :
          /\ i <= Len(MainPosts)
          /\ MainPosts[i].outcome \in Failed
    /\ Len(MainPosts) \in {Len(sleeps), Len(sleeps) + 1}
    /\ apc = "loop" => Len(MainPosts) = Len(sleeps)

C11_Witness ==
    /\ apc = "loop" /\ backoff_base = 5 /\ sleeps = <<5, 10>>
    /\ posts[1].outcome = "http5" /\ posts[2].outcome = "reqexc"

\* the k-th POST of the loop is the first that succeeded and every earlier
\* one failed with HTTP 5xx
FirstSuccessAfter5xx ==
    /\ apc = "done" /\ MainPosts # <<>>
    /\ MainPosts[Len(MainPosts)].outcome = "ok"
    /\ \A i \in 1..(Len(MainPosts) - 1) : MainPosts[i].outcome = "http5"
ReturnsLastText ==
    /\ result.kind = "str"
    /\ result.text = OrUnknown(RespText(last_resp))

\* C12 as stated: when the k-th POST is the first that succeeds after k-1
\* HTTP 5xx failures, ask returns that response's text after exactly k POSTs
\* and k-1 sleeps, with no streaming request.
C12_Claim ==
    FirstSuccessAfter5xx
    => /\ Len(posts) = Len(MainPosts)
       /\ Len(sleeps) = Len(MainPosts) - 1
       /\ ~HasStream
       /\ ReturnsLastText

\* C12 amended: the same, unless the successful reply's text holds an
\* upstream-auth-failure marker and the provider is not 'local'; then exactly
\* one failover POST follows the k POSTs (still k-1 sleeps, no streaming).
C12_RetryThenSuccess ==
    FirstSuccessAfter5xx
    => LET k == Len(MainPosts)
           fo == MainPosts[k].marker /\ MainPosts[k].provider # "local"
       IN  /\ Len(sleeps) = k - 1
           /\ ~HasStream
           /\ ~fo => Len(posts) = k /\ ReturnsLastText
           /\ fo => Len(posts) = k + 1 /\ IsFailover(k + 1)

C12_Witness ==
    /\ FirstSuccessAfter5xx /\ Len(MainPosts) = 3 /\ Len(posts) = 3
    /\ Len(sleeps) = 2 /\ result = Str(<<"ok">>)

\* C13: a streaming request is sent at most once, as the last request of the
\* call, only after all retry_count+1 POSTs of the loop failed and the last
\* failure was an HTTP error with status 5xx or unknown; when the last
\* failure is HTTP 4xx the call ends with the error string and no streaming.
C13_StreamLastResort ==
    /\ \A i \in 1..Len(posts) :
          posts[i].mode = "stream"
          => /\ i = Len(posts)
             /\ i = retry_count + 2
             /\ \A j \in 1..(i - 1) :
                   posts[j].mode = "post" /\ posts[j].outcome \in Failed
             /\ posts[i - 1].outcome \in {"http5", "httpnone"}
    /\ (/\ apc \in {"stream", "done"} /\ posts # <<>>
        /\ MainPosts[Len(MainPosts)].outcome = "http4")
       => /\ apc = "done" /\ ~HasStream
          /\ result = Str(ErrFailed)

C13_Witness ==
    /\ apc = "done" /\ retry_count = 1 /\ Len(posts) = 3
    /\ posts[1].outcome = "http4" /\ posts[2].outcome = "http5"
    /\ posts[3].mode = "stream" /\ posts[3].outcome = "ok"

\* the streaming request was answered 200 and read to [DONE] or to a clean end
StreamAnswered ==
    /\ apc = "done" /\ stream_in.kind = "ok"
    /\ ~stream_in.broken \/ ReachesDone(stream_in.lines)
IsDoneLine(l) == l.f = "data" /\ l.d = "[DONE]"
IsTermLine(l) == IsDoneLine(l) \/ (l.f = "event" /\ l.d \in {"done", "error"})
\* the index of the first line satisfying T, or one past the end
FirstAt(lines, T(_)) ==
    IF \E i \in 1..Len(lines) : T(lines[i])
    THEN CHOOSE i \in 1..Len(lines) :
            T(lines[i]) /\ \A j \in 1..(i - 1) : ~T(lines[j])
    ELSE Len(lines) + 1
\* the data: payloads of the lines before index d, in arrival order
PayloadsBefore(lines, d) ==
    LET kept == SelectSeq(SubSeq(lines, 1, d - 1), LAMBDA l : l.f = "data")
    IN  [i \in 1..Len(kept) |-> kept[i].d]
\* text is exactly the payloads ps, in order, separated by newlines
IsJoinOf(text, ps) ==
    IF ps = <<>> THEN text = Unknown
    ELSE /\ Len(text) = 2 * Len(ps) - 1
         /\ \A i \in 1..Len(ps) : text[2 * i - 1] = ps[i]
         /\ \A i \in 1..(Len(ps) - 1) : text[2 * i] = "\n"

\* C14: the streaming answer is the payloads of the data: lines received
\* before [DONE], in arrival order, joined by newlines; none is dropped,
\* duplicated or reordered, and lines after [DONE] contribute nothing.
C14_StreamReconstruction ==
    StreamAnswered
    => /\ result.kind = "str"
       /\ IsJoinOf(result.text,
                   PayloadsBefore(stream_in.lines,
                                  FirstAt(stream_in.lines, IsDoneLine)))

C14_Witness ==
    /\ StreamAnswered
    /\ stream_in.lines = <<[f |-> "data", d |-> "chunk1"],
                           [f |-> "data", d |-> "[DONE]"],
                           [f |-> "data", d |-> "chunk2"]>>
    /\ result = Str(<<"chunk1">>)

\* C15: reading stops at a [DONE] payload or at an event: done or
\* event: error line; the payloads of the terminating frame and of every
\* later line are not part of the answer.
C15_Claim ==
    StreamAnswered
    => /\ result.kind = "str"
       /\ IsJoinOf(result.text,
                   PayloadsBefore(stream_in.lines,
                                  FirstAt(stream_in.lines, IsTermLine)))

\* every POST of the loop failed with a transient error
AllTransient ==
    /\ apc = "done" /\ MainPosts # <<>> /\ Len(MainPosts) = retry_count + 1
    /\ \A i \in 1..Len(MainPosts) : MainPosts[i].outcome \in {"http5", "reqexc"}
StreamFailed == stream_in.kind # "ok" \/ (stream_in.broken /\ ~ReachesDone(stream_in.lines))

\* C16 as stated: when every POST fails with HTTP 5xx or a request
\* exception, ask exhausts the retries, then sends the streaming request,
\* and returns the error string only if that fails too.
C16_Claim ==
    AllTransient
    => /\ Len(sleeps) = retry_count
       /\ HasStream
       /\ result = Str(ErrFailed) <=> StreamFailed

\* C16 amended: the retries are exhausted first in both cases; the streaming
\* request follows only when the last failure was HTTP 5xx, and then the
\* error string is returned exactly when streaming fails too; when the last
\* failure was a request exception the error string is returned at once.
C16_EscalationOrder ==
    AllTransient
    => /\ Len(sleeps) = retry_count
       /\ MainPosts[retry_count + 1].outcome = "http5"
          => /\ HasStream /\ posts[Len(posts)].mode = "stream"
             /\ result = Str(ErrFailed) <=> StreamFailed
       /\ MainPosts[retry_count + 1].outcome = "reqexc"
          => ~HasStream /\ result = Str(ErrFailed)

C16_Witness ==
    /\ AllTransient /\ retry_count = 2
    /\ posts[1].outcome = "reqexc" /\ posts[3].outcome = "http5"
    /\ HasStream /\ stream_in.kind = "http" /\ result = Str(ErrFailed)

\* C17: when the health probe failed or answered with an error status, ask
\* returns the error string at once: no POST, no sleep, no streaming request.
C17_UnavailableNoRequest ==
    probe \in {"conn", "404", "500"}
    => /\ posts = <<>> /\ sleeps = <<>> /\ attempt = 0
       /\ apc \in {"idle", "done"}
       /\ apc = "done" => result = Str(ErrUnavailable)

C17_Witness ==
    /\ probe = "500" /\ retry_count = 2 /\ apc = "done"
    /\ result = Str(ErrUnavailable)

\* C18: every request other than the failover POST, retries and the
\* streaming request included, carries the provider fixed at construction:
\* LLM_SERVER_PROVIDER, else LLM_DEFAULT_PROVIDER, else
\* 'gemini-2.5-flash-lite'.
C18_ProviderFixed ==
    \A i \in 1..Len(posts) :
        /\ posts[i].provider \in {DefaultProvider, "local", "other"}
        /\ ~IsFailover(i)
           => posts[i].provider =
                 (IF env.server # Unset THEN env.server
                  ELSE IF env.default # Unset THEN env.default
                  ELSE "gemini-2.5-flash-lite")

C18_Witness ==
    /\ env = Env("other", "local") /\ Len(posts) = 3
    /\ posts[1].provider = "other" /\ posts[2].provider = "other"
    /\ posts[3].mode = "stream" /\ posts[3].provider = "other"

ExtraPosts == SelectSeq(posts, LAMBDA p : p.mode \in {"failover", "stream"})
PostsBounded ==
    /\ Len(posts) <= retry_count + 2
    /\ Len(MainPosts) <= retry_count + 1
    /\ Len(ExtraPosts) <= 1
    /\ Len(posts) = Len(MainPosts) + Len(ExtraPosts)

\* C31: a call sends at most retry_count + 1 POSTs of the loop and at most
\* one further request, the failover POST or the streaming POST and never
\* both: at most retry_count + 2 requests in all.  The call is never stuck:
\* in the loop the next POST is due (attempt <= retry_count, one failed POST
\* per attempt counted), and after the one further request the call is over.
C31_TerminatesBounded ==
    /\ PostsBounded
    /\ apc = "loop" => attempt <= retry_count /\ Len(posts) = attempt
    /\ apc \in {"failover", "stream"} => ExtraPosts = <<>>
    /\ ExtraPosts # <<>> => apc = "done"
    /\ apc = "idle" => posts = <<>>

C31_Witness ==
    /\ apc = "done" /\ retry_count = 2 /\ Len(posts) = 4
    /\ posts[4].mode = "failover" /\ posts[4].outcome = "http5"

StartsWithError(r) == r.kind = "str" /\ r.text # <<>> /\ r.text[1] = "Error:"
FailoverFailed ==
    /\ posts # <<>> /\ IsFailover(Len(posts))
    /\ posts[Len(posts)].outcome # "ok"
\* the call ended without an answer of the model
AskFailure ==
    /\ apc = "done"
    /\ \/ ~available
       \/ (posts # <<>> /\ \A i \in 1..Len(posts) : posts[i].outcome \in Failed \cup {"fail"})
       \/ FailoverFailed

\* C32: every failure outcome of ask (server unavailable, retries and
\* streaming exhausted, failover POST failed) is returned as a string that
\* begins with 'Error:'.
C32_Claim == AskFailure => StartsWithError(result)

\* C33: a call leaves the client as it was constructed: available and
\* provider keep their construction-time values through and after every
\* call, and a call that follows one with a failover starts again with the
\* configured provider in its payload.
C33_ClientUnchanged ==
    /\ available = ProbeOk(probe)
    /\ provider = ProviderOf(env)
    /\ (posts # <<>> /\ posts[1].mode = "post") => posts[1].provider = ProviderOf(env)
    /\ apc \in {"loop", "stream"} => payload_provider = ProviderOf(env)

C33_Witness ==
    /\ ncalls = 1 /\ prior_failover /\ apc = "done"
    /\ Len(posts) = 1 /\ posts[1].provider = DefaultProvider
    /\ result = Str(<<"ok">>)

\* ------------------------------------------------------------------------
\* fetch_and_process_current_events: the run, one step per file operation
\* ------------------------------------------------------------------------
InitPipe ==
    /\ ParseIdle /\ ListIdle /\ HandleIdle /\ IdIdle
    /\ ReconIdle
    /\ AskIdle
    /\ pc = "start"
    /\ ai_model \in BOOLEAN
    /\ n_items = 0 /\ idx = 0 /\ features = <<>>
    /\ files \in {[f \in FileNames |-> Absent],
                  [f \in FileNames |-> IF f = "dest" THEN to_geojson(<<OldFeature>>) ELSE Absent]}
    /\ marker = FALSE /\ dbglog = <<>> /\ write_failed = FALSE
    /\ marker_failed = FALSE
    /\ killed_at = "" /\ observed = Unread

FetchFailsMarked ==
    /\ pc = "start"
    /\ pc' = "fetch_failed"
    /\ marker' = TRUE
    /\ UNCHANGED <<reconVars, parseVars, listVars, handleVars, idVars, askVars, ai_model, n_items, idx, features, files,
                   marker_failed, dbglog, write_failed, killed_at, observed>>

\* lines 282-290: a failed listing GET ends the run
FetchFails ==
    /\ pc = "start"
    /\ pc' = "fetch_failed"
    /\ UNCHANGED <<reconVars, parseVars, listVars, handleVars, idVars, askVars, ai_model, n_items, idx, features, files,
                   marker, marker_failed, dbglog, write_failed, killed_at, observed>>

\* lines 286-463: the listing is fetched and parsed into n items, the running
\* marker is written (lines 456-459: an exception of that write is
\* swallowed), the accumulator starts empty
FetchListing(n, mk) ==
    /\ pc = "start"
    /\ n_items' = n
    /\ marker' = (marker \/ mk)
    /\ marker_failed' = ~mk
    /\ features' = <<>>
    /\ idx' = 0
    /\ pc' = "loop"
    /\ UNCHANGED <<reconVars, parseVars, listVars, handleVars, idVars, askVars, ai_model, files, dbglog, write_failed,
                   killed_at, observed>>

\* lines 465-830 and 849-851: one item up to features.append, or up to the
\* warning and the sleep when it has no coordinate
ProcessItem(in) ==
    /\ pc = "loop"
    /\ idx < n_items
    /\ LET r == ResolveItem(in)
       IN  IF r.status = "crash"
           THEN /\ pc' = "crashed"
                /\ UNCHANGED <<features, idx>>
           ELSE IF r.status = "none"
           THEN /\ pc' = "loop"
                /\ idx' = idx + 1
                /\ UNCHANGED features
           ELSE /\ features' = Append(features, r.feature)
                /\ pc' = "w_tmp"
                /\ UNCHANGED idx
    /\ UNCHANGED <<reconVars, parseVars, listVars, handleVars, idVars, askVars, ai_model, n_items, files, marker, marker_failed, dbglog,
                   write_failed, killed_at, observed>>

\* line 833, first half: write_text opens (creates or truncates) the target
TmpOpen ==
    /\ pc = "w_tmp"
    /\ files' = [files EXCEPT ![IncrTarget] = Partial]
    /\ pc' = "w_tmp_open"
    /\ UNCHANGED <<reconVars, parseVars, listVars, handleVars, idVars, askVars, ai_model, n_items, idx, features, marker, marker_failed,
                   dbglog, write_failed, killed_at, observed>>

\* line 833, second half: the document is written and the file closed
TmpWrite ==
    /\ pc = "w_tmp_open"
    /\ files' = [files EXCEPT ![IncrTarget] = to_geojson(features)]
    /\ pc' = "w_rename"
    /\ UNCHANGED <<reconVars, parseVars, listVars, handleVars, idVars, askVars, ai_model, n_items, idx, features, marker, marker_failed,
                   dbglog, write_failed, killed_at, observed>>

\* line 834: os.replace(tmp, out_path); a missing source raises
Rename ==
    /\ pc = "w_rename"
    /\ IF files["tmp"].st = "absent"
       THEN write_failed' = TRUE /\ UNCHANGED files
       ELSE /\ files' = [files EXCEPT !["dest"] = files["tmp"], !["tmp"] = Absent]
            /\ write_failed' = FALSE
    /\ pc' = "log"
    /\ UNCHANGED <<reconVars, parseVars, listVars, handleVars, idVars, askVars, ai_model, n_items, idx, features, marker, marker_failed,
                   dbglog, killed_at, observed>>

\* lines 835-836: any exception of the write or the rename is logged and the
\* item goes on; what was written so far stays where it is
WriteFail ==
    /\ pc \in {"w_tmp", "w_tmp_open", "w_rename"}
    /\ write_failed' = TRUE
    /\ pc' = "log"
    /\ UNCHANGED <<reconVars, parseVars, listVars, handleVars, idVars, askVars, ai_model, n_items, idx, features, files,
                   marker, marker_failed, dbglog, killed_at, observed>>

\* lines 837-851: the diagnostic line (its failure is swallowed), the sleep,
\* the next item
DebugLog(ok) ==
    /\ pc = "log"
    /\ dbglog' = IF ok THEN Append(dbglog, features[Len(features)].id) ELSE dbglog
    /\ idx' = idx + 1
    /\ pc' = "loop"
    /\ UNCHANGED <<reconVars, parseVars, listVars, handleVars, idVars, askVars, ai_model, n_items, features, files, marker, marker_failed,
                   write_failed, killed_at, observed>>

FinalOpenSkipsEmpty ==
    /\ pc = "loop"
    /\ idx = n_items
    /\ IF features = <<>>
       THEN pc' = "done" /\ UNCHANGED files
       ELSE files' = [files EXCEPT !["dest"] = Partial] /\ pc' = "final_open"
    /\ UNCHANGED <<reconVars, parseVars, listVars, handleVars, idVars, askVars, ai_model, n_items, idx, features, marker, marker_failed,
                   dbglog, write_failed, killed_at, observed>>

\* line 853, first half: out_path.write_text opens (truncates) out_path itself
FinalOpen ==
    /\ pc = "loop"
    /\ idx = n_items
    /\ files' = [files EXCEPT !["dest"] = Partial]
    /\ pc' = "final_open"
    /\ UNCHANGED <<reconVars, parseVars, listVars, handleVars, idVars, askVars, ai_model, n_items, idx, features, marker, marker_failed,
                   dbglog, write_failed, killed_at, observed>>

FinalWriteUnmarks ==
    /\ pc = "final_open"
    /\ files' = [files EXCEPT !["dest"] = to_geojson(features)]
    /\ marker' = FALSE
    /\ pc' = "done"
    /\ UNCHANGED <<reconVars, parseVars, listVars, handleVars, idVars, askVars, ai_model, n_items, idx, features,
                   marker_failed, dbglog, write_failed, killed_at, observed>>

\* line 853, second half
FinalWrite ==
    /\ pc = "final_open"
    /\ files' = [files EXCEPT !["dest"] = to_geojson(features)]
    /\ pc' = "done"
    /\ UNCHANGED <<reconVars, parseVars, listVars, handleVars, idVars, askVars, ai_model, n_items, idx, features, marker, marker_failed,
                   dbglog, write_failed, killed_at, observed>>

Running == pc \in {"loop", "w_tmp", "w_tmp_open", "w_rename", "log", "final_open"}

\* the process is terminated (section 5: no cancellation but termination)
Kill ==
    /\ Running
    /\ killed_at' = pc
    /\ pc' = "killed"
    /\ UNCHANGED <<reconVars, parseVars, listVars, handleVars, idVars, askVars, ai_model, n_items, idx, features, files,
                   marker, marker_failed, dbglog, write_failed, observed>>

\* app.py current_events: another process reads the destination file
Read ==
    /\ pc # "off"
    /\ observed' = files["dest"]
    /\ UNCHANGED <<reconVars, parseVars, listVars, handleVars, idVars, askVars, pc, ai_model, n_items, idx, features, files,
                   marker, marker_failed, dbglog, write_failed, killed_at>>

NextPipe ==
    \/ FetchFails
    \/ \E n \in 0..MaxItems, mk \in BOOLEAN : FetchListing(n, mk)
    \/ \E in \in PipeInputs(ai_model, idx) : ProcessItem(in)
    \/ TmpOpen
    \/ TmpWrite
    \/ Rename
    \/ WriteFail
    \/ \E ok \in BOOLEAN : DebugLog(ok)
    \/ FinalOpen
    \/ FinalWrite
    \/ Kill
    \/ Read

SpecPipe == InitPipe /\ [][NextPipe]_vars

IsPrefix(a, b) == Len(a) <= Len(b) /\ SubSeq(b, 1, Len(a)) = a

\* C7: a concurrent reader never reads a partially written destination file.
C7_Claim == observed.st # "partial"

\* the incremental write stopped between opening the temp file and the
\* rename: by termination of the process or by an exception
IncrInterrupted ==
    \/ pc = "killed" /\ killed_at \in {"w_tmp_open", "w_rename"}
    \/ pc = "log" /\ write_failed
\* C8: after an interrupted incremental write the destination file is absent
\* or holds a complete earlier document (the earlier run's, or this run's
\* features without the one being flushed); it is never partial.
C8_DestPriorOrAbsent ==
    (IncrInterrupted \/ pc \in {"w_tmp_open", "w_rename"})
    => /\ files["dest"].st \in {"absent", "complete"}
       /\ files["dest"].st = "complete"
          => \/ files["dest"].feats = <<OldFeature>>
             \/ /\ IsPrefix(files["dest"].feats, features)
                /\ Len(files["dest"].feats) < Len(features)

C8_Witness ==
    /\ pc = "killed" /\ killed_at = "w_tmp_open"
    /\ files["tmp"].st = "partial"
    /\ Len(features) = 2
    /\ files["dest"] = to_geojson(<<features[1]>>)

InFinalWrite == pc = "final_open" \/ pc' = "final_open"
FlushedThisRun == files["dest"].st = "complete" /\ files["dest"].feats # <<>>
                  /\ IsPrefix(files["dest"].feats, features)
\* C9: after each resolved item whose write did not fail the destination
\* file holds exactly the features resolved so far, in listing order; while
\* items are processed the accumulator only grows and a flushed feature stays
\* in the destination file unchanged.
C9_PartialResultsVisible ==
    /\ [](pc = "log" /\ ~write_failed
          => /\ files["dest"] = [st |-> "complete", feats |-> features]
             /\ \A i, j \in 1..Len(features) :
                   i < j => features[i].id[3] < features[j].id[3])
    /\ [][~InFinalWrite /\ pc # "start"
          => /\ IsPrefix(features, features')
             /\ FlushedThisRun
                => /\ files'["dest"].st = "complete"
                   /\ IsPrefix(files["dest"].feats, files'["dest"].feats)]_vars

C9_Witness ==
    /\ pc = "loop" /\ idx = 2
    /\ Len(features) = 1 /\ features[1].id[3] = 0
    /\ files["dest"] = [st |-> "complete", feats |-> features]

DecisionSet == {"llm", "wikidata", "fallback", "unknown"}
SameDecisions(old, new) ==
    \A i \in 1..Len(old) :
        (i <= Len(new) /\ new[i].id = old[i].id)
        => new[i].decision = old[i].decision
\* C20: every feature of the accumulator and of the destination file carries
\* a decision from {llm, wikidata, fallback, unknown}; once a feature is
\* appended, no later item and no later rewrite of the file changes its
\* decision.
C20_DecisionFixed ==
    /\ [](/\ \A i \in 1..Len(features) : features[i].decision \in DecisionSet
          /\ files["dest"].st = "complete"
             => \A i \in 1..Len(files["dest"].feats) :
                   files["dest"].feats[i].decision \in DecisionSet)
    /\ [][/\ pc # "start" => /\ IsPrefix(features, features')
                             /\ SameDecisions(features, features')
          /\ (files["dest"].st = "complete" /\ files'["dest"].st = "complete")
             => SameDecisions(files["dest"].feats, files'["dest"].feats)]_vars

C20_Witness ==
    /\ Len(features) = 2
    /\ features[1].decision = "llm" /\ features[2].decision = "wikidata"
    /\ files["dest"] = [st |-> "complete", feats |-> features]
    /\ pc = "done"

Started == pc \notin {"off", "start", "fetch_failed"}
C39_FinalRewrite ==
    pc = "done"
    => /\ idx = n_items
       /\ files["dest"] = to_geojson(features)
       /\ files["dest"].st = "complete"
       /\ files["dest"].feats = features
       /\ \A i, j \in 1..Len(features) :
             i < j => features[i].id[3] < features[j].id[3]
       /\ \A i \in 1..Len(features) : features[i].id[3] < n_items
       /\ features = <<>> => files["dest"].feats = <<>>

C39_Witness ==
    /\ pc = "done" /\ n_items = 2 /\ features = <<>>
    /\ observed = to_geojson(<<OldFeature>>)
    /\ files["dest"] = [st |-> "complete", feats |-> <<>>]

\* ------------------------------------------------------------------------
\* The parsers run on a reply of the model
\* ------------------------------------------------------------------------
InitParse ==
    /\ ReconIdle /\ AskIdle /\ PipeIdle /\ ListIdle /\ HandleIdle /\ IdIdle
    /\ reply_body \in Bodies
    /\ reply_wrap \in Wraps
    /\ kb_guess \in KbGuesses
    /\ geo_parse = NoGeoParse
    /\ story_parse = NoStoryParse

\* lines 639-757: the reply to the place-string prompt
ParseGeo ==
    /\ geo_parse.status = "pending"
    /\ geo_parse' = GeoParse(Wrap(reply_wrap, reply_body), kb_guess)
    /\ UNCHANGED <<reply_body, reply_wrap, kb_guess, story_parse>>
    /\ UNCHANGED <<reconVars, askVars, pipeVars, listVars, handleVars, idVars>>

\* lines 495-533: the reply to the story prompt
ParseStory ==
    /\ story_parse.status = "pending"
    /\ story_parse' = StoryParse(Wrap(reply_wrap, reply_body))
    /\ UNCHANGED <<reply_body, reply_wrap, kb_guess, geo_parse>>
    /\ UNCHANGED <<reconVars, askVars, pipeVars, listVars, handleVars, idVars>>

NextParse ==
    \/ ParseGeo
    \/ ParseStory

SpecParse == InitParse /\ [][NextParse]_vars

\* C24: after the JSON parse failed, the strategies run in the order DMS,
\* generic two-float, labeled lat/lng, City-Country re-lookup, and the first
\* that succeeds supplies the estimate: at most one strategy assigns the
\* coordinate, and the estimate is the one it assigned.
C24_Claim ==
    geo_parse.status = "done" =>
        /\ Len(geo_parse.wins) <= 1
        /\ geo_parse.wins # <<>> => geo_parse.est = geo_parse.wins[1].est

\* the value the claim gives for a matched group, in arc-seconds
DmsExpected(g) ==
    LET mag == g.d * 3600 + g.m * 60 + g.s
    IN  IF g.h \in {"S", "s", "W", "w"} THEN 0 - mag ELSE mag
DmsAssigned == geo_parse.wins[1].est

\* C26: what the DMS strategy assigns for two matched groups is, for each
\* group, degrees + minutes/60 + seconds/3600, negative exactly for S, s, W,
\* w and non-negative for N and E; 40 26 46 N, 79 58 56 W gives a pair
\* within 0.001 degrees of (40.4461, -79.9822).
C26_DmsConversion ==
    (geo_parse.status = "done" /\ geo_parse.wins # <<>>
     /\ geo_parse.wins[1].by = "dms") =>
        LET g1 == geo_parse.matches[1]
            g2 == geo_parse.matches[2]
        IN  /\ DmsAssigned = P(DmsExpected(g1), DmsExpected(g2))
            /\ g1.h \in {"N", "n", "E", "e"} => DmsAssigned.lat.v >= 0
            /\ g2.h \in {"N", "n", "E", "e"} => DmsAssigned.lng.v >= 0
            /\ g1.h \in {"S", "s", "W", "w"} => DmsAssigned.lat.v < 0
            /\ g2.h \in {"S", "s", "W", "w"} => DmsAssigned.lng.v < 0
            /\ (g1 = [d |-> 40, m |-> 26, s |-> 46, h |-> "N"]
                /\ g2 = [d |-> 79, m |-> 58, s |-> 56, h |-> "W"]) =>
                  \* |v/3600 - 40.4461| <= 0.001, times 90000
                  /\ Abs(DmsAssigned.lat.v * 25 - 404461 * 9) <= 90
                  /\ Abs(DmsAssigned.lng.v * 25 + 799822 * 9) <= 90

C26_Witness ==
    /\ geo_parse.status = "done"
    /\ reply_body = Dms(40, 26, 46, "quote", "s") \o Dms(79, 58, 56, "quote", "w")
    /\ geo_parse.wins # <<>> /\ geo_parse.wins[1].by = "dms"
    /\ geo_parse.wins[1].est = P(0 - 145606, 0 - 287936)

IsJsonObject(q) == Len(q) = 1 /\ q[1].k = "json" /\ q[1].s = "dict"
Fenced == reply_wrap \in {"json_closed", "json_open", "plain_closed", "plain_open"}

\* C27: a reply that is one JSON object inside a code fence (with or without
\* the json tag, closed or not) gives the story record and the coordinate
\* estimate that the bare JSON object gives: the object's own fields.
C27_FencedSameAsBare ==
    (Fenced /\ IsJsonObject(reply_body)) =>
        /\ story_parse.status = "done" =>
              /\ story_parse.rec = reply_body[1].o
              /\ story_parse = StoryParse(reply_body)
        /\ geo_parse.status = "done" =>
              /\ geo_parse = GeoParse(reply_body, kb_guess)
              /\ reply_body[1].o = P(10, 20) =>
                    geo_parse.wins = <<[by |-> "json", est |-> P(10 * 3600, 20 * 3600)]>>

C27_Witness ==
    /\ reply_wrap = "json_open"
    /\ reply_body = <<TJson("dict", P(10, 20))>>
    /\ story_parse.status = "done" /\ story_parse.rec = P(10, 20)
    /\ geo_parse.status = "done" /\ geo_parse.est = P(36000, 72000)

\* ------------------------------------------------------------------------
\* The extraction run on a listing page
\* ------------------------------------------------------------------------
InitListing ==
    /\ ReconIdle /\ AskIdle /\ PipeIdle /\ ParseIdle /\ HandleIdle /\ IdIdle
    /\ page \in Pages
    /\ listing = NoListing

\* lines 338-452: select the day, add the containers, extract the items
ExtractListing ==
    /\ listing.status = "pending"
    /\ listing' = Listing(page)
    /\ UNCHANGED page
    /\ UNCHANGED <<reconVars, askVars, pipeVars, parseVars, handleVars, idVars>>

NextListing == ExtractListing

SpecListing == InitListing /\ [][NextListing]_vars

Filled(c) == c \in {"header", "list"}
LeastOf(S) == IF S = {} THEN 0 - 1 ELSE CHOOSE x \in S : \A y \in S : x <= y

\* C29 as stated: the selected day is the most recent of today .. today-3
\* whose block (the div carrying the date id) has a non-empty paragraph or
\* list child; no day is selected when there is none.
C29_Claim ==
    listing.status = "done" =>
        listing.sel = LeastOf({d \in 0..3 : Filled(page.days[d + 1].main)})

\* C29: the selected day is the most recent of today .. today-3 for which
\* the block carrying the date id, or a 'current-events-more' block that
\* follows it, has a non-empty paragraph or list child; a more recent day
\* without such a block is skipped and no day further back is selected.
C29_MostRecentDayWithContent ==
    listing.status = "done" =>
        listing.sel = LeastOf({d \in 0..3 :
                                 /\ page.days[d + 1].main # "missing"
                                 /\ \/ Filled(page.days[d + 1].main)
                                    \/ Filled(page.days[d + 1].more)})

C29_Witness ==
    /\ listing.status = "done" /\ listing.sel = 2
    /\ page.days[1].main = "missing"
    /\ page.days[2] = [main |-> "empty", more |-> "none"]
    /\ page.days[3] = [main |-> "empty", more |-> "list"]
    /\ page.days[4].main = "list"

SelectedEntries ==
    LET day == page.days[listing.sel + 1]
    IN  (IF day.main = "list" THEN {Entry(listing.sel, "main", k) : k \in 1..2} ELSE {})
        \cup (IF day.more = "list" THEN {Entry(listing.sel, "more", k) : k \in 1..2} ELSE {})

\* C30: when a day was selected, the item list holds each top-level list
\* entry of that day's blocks exactly once and nothing else.
C30_Claim ==
    (listing.status = "done" /\ listing.sel >= 0) =>
        /\ \A i \in 1..Len(listing.items) : listing.items[i] \in SelectedEntries
        /\ \A e \in SelectedEntries :
              Cardinality({i \in 1..Len(listing.items) : listing.items[i] = e}) = 1

\* ------------------------------------------------------------------------
\* The model handle over the requests of a run
\* ------------------------------------------------------------------------
InitHandle ==
    /\ ReconIdle /\ AskIdle /\ PipeIdle /\ ParseIdle /\ ListIdle /\ IdIdle
    /\ allow_local \in BOOLEAN
    /\ gguf \in Ggufs
    /\ remote_up \in BOOLEAN
    /\ handle = "unset" /\ hpc = "start" /\ nreq = 0
    /\ hlog = <<>> /\ loads = <<>> /\ switched = FALSE

\* lines 256-280: the remote client when its probe succeeded, else the
\* local model when the flag allows it and it loads, else no model
HandleSetup ==
    /\ hpc = "start"
    /\ LET st == StartHandle(remote_up, allow_local, gguf)
       IN  handle' = st.handle /\ loads' = st.loads
    /\ hpc' = "run"
    /\ UNCHANGED <<allow_local, gguf, remote_up, nreq, hlog, switched>>
    /\ UNCHANGED <<reconVars, askVars, pipeVars, parseVars, listVars, idVars>>

\* lines 481-495, 538-548, 630-639: a prompt is sent, which the pipeline
\* does only while ai_model is set
Request(out, lout) ==
    /\ hpc = "run"
    /\ nreq < MaxReqs
    /\ handle # "none"
    /\ out \in (IF handle = "local" THEN LocalOuts ELSE RemoteOuts)
    /\ LET a == AskWithFallback(handle, gguf, out, lout)
       IN  /\ handle' = a.handle
           /\ loads' = loads \o a.loads
           /\ hlog' = hlog \o a.calls
           /\ switched' = (switched \/ (handle = "remote" /\ a.handle = "local"))
    /\ nreq' = nreq + 1
    /\ UNCHANGED <<allow_local, gguf, remote_up, hpc>>
    /\ UNCHANGED <<reconVars, askVars, pipeVars, parseVars, listVars, idVars>>

NextHandle ==
    \/ HandleSetup
    \/ \E out \in RemoteOuts, lout \in LocalOuts : Request(out, lout)

SpecHandle == InitHandle /\ [][NextHandle]_vars

\* C34: once a request has replaced the handle with the local model, the
\* handle stays the local model and every later ask of the run goes to it;
\* the remote client is not called again.
C34_SwitchIsPermanent ==
    /\ switched => handle = "local"
    /\ \A i \in 1..Len(hlog) : \A j \in i..Len(hlog) :
          hlog[i].to = "local" => hlog[j].to = "local"
    /\ handle = "remote" => \A i \in 1..Len(hlog) : hlog[i].to = "remote"

C34_Witness ==
    /\ switched /\ nreq = 3
    /\ hlog = <<Call("remote", "text"), Call("remote", "error"),
                Call("local", "text"), Call("local", "text")>>

\* C35: when ALLOW_LOCAL_LLM is not set, no load of the local model is
\* attempted at any point of the run and no ask goes to it.
C35_Claim ==
    ~allow_local =>
        /\ loads = <<>>
        /\ handle # "local"
        /\ \A i \in 1..Len(hlog) : hlog[i].to # "local"

\* ------------------------------------------------------------------------
\* The ids of the features of one run
\* ------------------------------------------------------------------------
InitIds ==
    /\ ReconIdle /\ AskIdle /\ PipeIdle /\ ParseIdle /\ ListIdle /\ HandleIdle
    /\ id_pc = "loop" /\ id_idx = 0 /\ id_srcs = <<>>

\* lines 465, 849-851: the item has no coordinate; enumerate moves on
SkipItem ==
    /\ id_pc = "loop"
    /\ id_idx < MaxIdx
    /\ id_idx' = id_idx + 1
    /\ UNCHANGED <<id_pc, id_srcs>>
    /\ UNCHANGED <<reconVars, askVars, pipeVars, parseVars, listVars, handleVars>>

\* lines 465, 790-830: the item gets a feature whose id is the md5 of its
\* source string; enumerate moves on
EmitItem(title, place) ==
    /\ id_pc = "loop"
    /\ id_idx <= MaxIdx
    /\ Len(id_srcs) < MaxEmit
    /\ id_srcs' = Append(id_srcs, [idx |-> id_idx, title |-> title, place |-> place,
                                   src |-> FidSrc(title, place, id_idx)])
    /\ id_idx' = id_idx + 1
    /\ UNCHANGED id_pc
    /\ UNCHANGED <<reconVars, askVars, pipeVars, parseVars, listVars, handleVars>>

\* the loop is over
EndItems ==
    /\ id_pc = "loop"
    /\ id_pc' = "done"
    /\ UNCHANGED <<id_idx, id_srcs>>
    /\ UNCHANGED <<reconVars, askVars, pipeVars, parseVars, listVars, handleVars>>

NextIds ==
    \/ SkipItem
    \/ \E t \in TitleTexts, pl \in PlaceTexts : EmitItem(t, pl)
    \/ EndItems

SpecIds == InitIds /\ [][NextIds]_vars

\* C38: no two features of a run have the same id source string, whatever
\* their titles and place strings are.
C38_IdSourcesDistinct ==
    \A i \in 1..Len(id_srcs) : \A j \in 1..Len(id_srcs) :
        i # j => /\ id_srcs[i].idx # id_srcs[j].idx
                 /\ id_srcs[i].src # id_srcs[j].src

C38_Witness ==
    /\ id_pc = "done" /\ Len(id_srcs) = 2
    /\ id_srcs[1].idx = 1 /\ id_srcs[2].idx = 11
    /\ id_srcs[1].title = <<"T">> /\ id_srcs[1].place = <<"P", "|", "1">>
    /\ id_srcs[2].title = <<"T", "|", "P">> /\ id_srcs[2].place = <<>>

====
